---- MODULE Spec2Model ----
(***************************************************************************)
(* Model of the response cache middleware of starlette-caches:             *)
(* CacheMiddleware / CacheResponder and CacheControlMiddleware             *)
(* (middleware.py), the rule matcher (rules.py) and the cache utilities    *)
(* they call (utils/cache.py).                                             *)
(*                                                                         *)
(* A path is a sequence of segments: <<>> is "/", <<"a">> is "/a",         *)
(* <<"a","b">> is "/a/b".  An Optional value is a sequence of length <= 1: *)
(* <<>> is None, <<v>> is v.  A header list is a sequence of <<name,       *)
(* value>> pairs, names in lower case, a value being the sequence of its   *)
(* comma separated tokens.                                                 *)
(***************************************************************************)
EXTENDS Integers, Sequences, FiniteSets, TLC

\* ------------------------------------------------------------------ bounds
MaxRequests == 3        \* requests a behaviour starts
MaxChunks == 2          \* body messages a handler sends for one response
MaxRules == 2           \* length of the configured rule list
MaxDirectives == 2      \* Cache-Control directives of a call or a response

\* --------------------------------------------------------------- constants
CACHE_TTL == 120        \* Cache(ttl=2 * 60): the store-wide default ttl
SCOPE_NAME == "__asgi_caches__"

\* ------------------------------------------------------------- the inputs
None == <<>>
Some(v) == <<v>>

Root == <<>>
PathA == <<"a">>
PathAB == <<"a", "b">>
Paths == {Root, PathA, PathAB}

Statuses == {100, 200, 307, 404}

IsPrefix(p, s) == /\ Len(p) <= Len(s)
                  /\ \A i \in 1..Len(p) : p[i] = s[i]

\* ------------------------------------------------------------------ rules
\* A match item is a string or a compiled pattern.  The string "*" is the
\* item StrItem(Star), which is the text of no path.  A pattern is modelled
\* by the literal path prefix it spells: re.compile("/a").
Star == <<"*">>
StrItem(s) == [kind |-> "str", text |-> s]
ReItem(s) == [kind |-> "re", text |-> s]

\* Rule.match is one item, or an iterable of items.
One(item) == [kind |-> "one", items |-> <<item>>]
Many(items) == [kind |-> "many", items |-> items]

\* Rule.status is None, an int, or an iterable of ints.
StatusInt(n) == [kind |-> "int", vals |-> {n}]
StatusSet(s) == [kind |-> "set", vals |-> s]

Rule(match, status, ttl) == [match |-> match, status |-> status, ttl |-> ttl]
DefaultRule == Rule(One(StrItem(Star)), None, None)

\* PatternMatch with re.fullmatch: the pattern matches the whole path.
PatternFullMatch(item, path) == item.text = path

\* re.Pattern.match(path): the pattern matches at the start of the path.
PatternMatch(item, path) == IsPrefix(item.text, path)

\* ItemMatches that takes a string for the start of the paths it matches.
ItemMatchesPrefix(item, path) ==
    IF item.kind = "re"
    THEN PatternMatch(item, path)
    ELSE item.text = Star \/ IsPrefix(item.text, path)

ItemMatches(item, path) ==
    IF item.kind = "re"
    THEN PatternMatch(item, path)
    ELSE item.text = Star \/ item.text = path

request_matches_rule(rule, path) ==
    LET match == rule.match.items
    IN \E i \in 1..Len(match) : ItemMatches(match[i], path)

\* response_matches_rule that takes a status given as one int for no filter.
response_matches_rule_int_unchecked(rule, path, status) ==
    IF ~request_matches_rule(rule, path)
    THEN FALSE
    ELSE IF rule.status /= None /\ rule.status[1].kind /= "int"
         THEN LET statuses == rule.status[1].vals
              IN status \in statuses
         ELSE TRUE

\* response_matches_rule without the status filter.
response_matches_rule_any_status(rule, path, status) ==
    request_matches_rule(rule, path)

response_matches_rule(rule, path, status) ==
    IF ~request_matches_rule(rule, path)
    THEN FALSE
    ELSE IF rule.status /= None
         THEN LET statuses == rule.status[1].vals
              IN status \in statuses
         ELSE TRUE

\* next((rule for rule in rules if ...), None): the generator is consumed from
\* the front; the result is the position of the rule it yields, 0 for None.
RECURSIVE NextMatching(_, _, _, _)
NextMatching(rs, i, path, status) ==
    IF i > Len(rs)
    THEN 0
    ELSE IF (IF status = None
             THEN request_matches_rule(rs[i], path)
             ELSE response_matches_rule(rs[i], path, status[1]))
         THEN i
         ELSE NextMatching(rs, i + 1, path, status)

get_rule_matching_request(rs, path) == NextMatching(rs, 1, path, None)

\* get_rule_matching_response that yields the last matching rule.
get_rule_matching_response_last(rs, path, status) ==
    LET matching == {i \in 1..Len(rs) :
                        response_matches_rule(rs[i], path, status)}
    IN IF matching = {} THEN 0
       ELSE CHOOSE i \in matching : \A j \in matching : j <= i

get_rule_matching_response(rs, path, status) ==
    NextMatching(rs, 1, path, Some(status))

\* ---------------------------------------------------------------- headers
\* starlette Headers / MutableHeaders over a raw header list.
HHas(h, name) == \E i \in 1..Len(h) : h[i][1] = name

HGet(h, name) ==
    IF HHas(h, name)
    THEN h[CHOOSE i \in 1..Len(h) :
               h[i][1] = name /\ \A j \in 1..(i - 1) : h[j][1] /= name][2]
    ELSE <<>>

RECURSIVE HDel(_, _)
HDel(h, name) ==
    IF h = <<>> THEN <<>>
    ELSE IF h[1][1] = name THEN HDel(Tail(h), name)
    ELSE <<h[1]>> \o HDel(Tail(h), name)

\* MutableHeaders.__setitem__: the first header of that name takes the value,
\* later ones are dropped; appended when there is none.
HSet(h, name, value) ==
    IF HHas(h, name)
    THEN LET i == CHOOSE k \in 1..Len(h) :
                      h[k][1] = name /\ \A j \in 1..(k - 1) : h[j][1] /= name
         IN SubSeq(h, 1, i - 1) \o <<<<name, value>>>>
                \o HDel(SubSeq(h, i + 1, Len(h)), name)
    ELSE Append(h, <<name, value>>)

\* --------------------------------------------------------------- messages
\* ASGI messages: http.response.start {status, headers} and
\* http.response.body {body, more_body}.
StartMsg(status, headers) ==
    [type |-> "http.response.start", status |-> status, headers |-> headers,
     body |-> "", more_body |-> FALSE]
BodyMsg(body, more) ==
    [type |-> "http.response.body", status |-> 0, headers |-> <<>>,
     body |-> body, more_body |-> more]

\* starlette Response.__call__: the start message, then the whole body.
ResponseMessages(resp) ==
    << StartMsg(resp.status_code, resp.raw_headers), BodyMsg(resp.body, FALSE) >>

\* ------------------------------------------------------- the cache store
\* The store maps keys to values.  It holds two kinds of entry: under the key
\* of a url, the names of the headers its responses vary on; under the key of
\* (method, url, values of those headers), a serialized response.  `up` tells
\* whether the backend answers: while it is FALSE every get, set and delete
\* fails (a timeout, a lost connection).
EmptyCache == [vary |-> <<>>, page |-> <<>>, up |-> TRUE]

MapGet(m, k) == IF k \in DOMAIN m THEN <<m[k]>> ELSE <<>>
MapSet(m, k, v) == [x \in (DOMAIN m) \cup {k} |-> IF x = k THEN v ELSE m[x]]
MapDelete(m, k) == [x \in (DOMAIN m) \ {k} |-> m[x]]

\* ------------------------------------------------------- utils/cache.py
CACHABLE_METHODS == {"GET", "HEAD"}
INVALIDATING_METHODS == {"POST", "PUT", "PATCH", "DELETE"}
\* CACHABLE_STATUS_CODES of 200 alone.
CACHABLE_STATUS_CODES_only_200 == {200}

\* Statuses stored when the matched rule declares no status of its own.
CACHABLE_STATUS_CODES == {200, 404}

\* Header names compare without case.
Lower(name) ==
    CASE name = "Accept-Encoding" -> "accept-encoding"
      [] name = "Cookie" -> "cookie"
      [] OTHER -> name

RECURSIVE LowerAll(_)
LowerAll(names) ==
    IF names = <<>> THEN <<>> ELSE <<Lower(names[1])>> \o LowerAll(Tail(names))

Range(f) == {f[i] : i \in DOMAIN f}

\* sorted(set) of header names: the names a request can carry, in order.
HeaderNames == <<"accept-encoding", "cookie">>
Sorted(set) == LET Test(n) == n \in set IN SelectSeq(HeaderNames, Test)

\* The value a request carries for each varying header, "" when it has none.
RECURSIVE HeaderValues(_, _)
HeaderValues(headers, names) ==
    IF names = <<>> THEN <<>>
    ELSE <<headers[names[1]]>> \o HeaderValues(headers, Tail(names))

\* generate_cache_key with a key of its own for each method.
generate_cache_key_per_method(path, method, headers, varying_headers) ==
    [method |-> method,
     path |-> path,
     values |-> HeaderValues(headers, varying_headers)]

\* GET and HEAD share one key: the key is always made for method GET.
generate_cache_key(path, method, headers, varying_headers) ==
    [method |-> IF method \in CACHABLE_METHODS THEN "GET" ELSE method,
     path |-> path,
     values |-> HeaderValues(headers, varying_headers)]

\* The key to look a request up under: None while no response for the url has
\* been stored.
get_cache_key(request, method, cache) ==
    LET varying_headers == MapGet(cache.vary, request.path)
    IN IF varying_headers = <<>>
       THEN <<>>
       ELSE <<generate_cache_key(request.path, method, request.headers,
                                 varying_headers[1])>>

\* Record the headers the response varies on next to those already known for
\* the url, and return the key to store the response under.
learn_cache_key(request, response, cache) ==
    LET known == MapGet(cache.vary, request.path)
        cached_vary_headers == IF known = <<>> THEN {} ELSE Range(known[1])
        response_vary_headers == Range(LowerAll(HGet(response.raw_headers, "vary")))
        varying_headers == Sorted(response_vary_headers \cup cached_vary_headers)
        headers == IF varying_headers /= <<>>
                   THEN HSet(response.raw_headers, "vary", varying_headers)
                   ELSE response.raw_headers
    IN [cache |-> [cache EXCEPT !.vary = MapSet(@, request.path, varying_headers)],
        raw_headers |-> headers,
        key |-> generate_cache_key(request.path, request.method, request.headers,
                                   varying_headers)]

\* ResponseCodec: the stored form of a response, and back.
serialize_response(response) ==
    << response.status_code, response.raw_headers, response.body >>
deserialize_response(value) ==
    [status_code |-> value[1], raw_headers |-> value[2], body |-> value[3]]

MaxAge(seconds) == "max-age=" \o ToString(seconds)
HttpDate(seconds) == "now+" \o ToString(seconds)

\* The directive a Cache-Control token names.
IsMaxAge(token) == \E n \in 0..CACHE_TTL : token = MaxAge(n)

RECURSIVE DropMaxAge(_)
DropMaxAge(tokens) ==
    IF tokens = <<>> THEN <<>>
    ELSE IF IsMaxAge(tokens[1]) THEN DropMaxAge(Tail(tokens))
    ELSE <<tokens[1]>> \o DropMaxAge(Tail(tokens))

\* patch_cache_control(headers, max_age=...) and the Expires header: the
\* directives already there stay, max-age is overwritten, Expires is set when
\* the response has none.
patch_cache_headers(headers, max_age) ==
    LET cc == DropMaxAge(HGet(headers, "cache-control")) \o <<MaxAge(max_age)>>
        h1 == IF HHas(headers, "expires")
              THEN headers
              ELSE HSet(headers, "expires", <<HttpDate(max_age)>>)
    IN HSet(h1, "cache-control", cc)

\* A directive as Cache-Control renders it: a boolean one (no value) as the
\* bare name, a numeric one as name=value.
Directive(name, value) ==
    IF value = <<>> THEN name ELSE name \o "=" \o ToString(value[1])

\* The name of the directive a Cache-Control token renders.
HasName(token, name) ==
    \/ token = name
    \/ \E n \in 0..CACHE_TTL : token = Directive(name, <<n>>)

KwHas(kwargs, name) == \E i \in 1..Len(kwargs) : kwargs[i][1] = name
KwGet(kwargs, name) ==
    kwargs[CHOOSE i \in 1..Len(kwargs) : kwargs[i][1] = name][2]

\* patch_cache_control(headers, **kwargs): a directive of the call overwrites
\* the directive of its name on the response or is added to the header, the
\* other directives of the response stay; Expires is set when the call gives
\* max-age and the response has none.
patch_cache_control(headers, kwargs) ==
    LET existing == HGet(headers, "cache-control")
        Named(token) == {kwargs[i] : i \in {j \in 1..Len(kwargs) :
                                               HasName(token, kwargs[j][1])}}
        kept == [i \in 1..Len(existing) |->
                    IF Named(existing[i]) = {}
                    THEN existing[i]
                    ELSE LET kw == CHOOSE kw \in Named(existing[i]) : TRUE
                         IN Directive(kw[1], kw[2])]
        IsNew(kw) == \A i \in 1..Len(existing) : ~HasName(existing[i], kw[1])
        fresh == SelectSeq(kwargs, IsNew)
        added == [i \in 1..Len(fresh) |-> Directive(fresh[i][1], fresh[i][2])]
        h1 == IF KwHas(kwargs, "max-age") /\ ~HHas(headers, "expires")
              THEN HSet(headers, "expires",
                        <<HttpDate(KwGet(kwargs, "max-age")[1])>>)
              ELSE headers
    IN HSet(h1, "cache-control", kept \o added)

\* get_from_cache: "RequestNotCachable", or the lookup's result: None on a
\* miss, the stored response marked X-Cache: hit on a hit.  A get the store
\* fails is caught here and is a miss.
get_from_cache(request, cache, rs) ==
    LET rule == get_rule_matching_request(rs, request.path)
    IN IF request.method \notin CACHABLE_METHODS
       THEN [raised |-> TRUE, response |-> <<>>]
       ELSE IF rule = 0 \/ rs[rule].ttl = <<0>>
       THEN [raised |-> TRUE, response |-> <<>>]
       ELSE IF ~cache.up
       THEN [raised |-> FALSE, response |-> <<>>]
       ELSE LET cache_key == get_cache_key(request, "GET", cache)
                serialized == IF cache_key = <<>>
                              THEN <<>>
                              ELSE MapGet(cache.page, cache_key[1])
            IN IF serialized = <<>>
               THEN [raised |-> FALSE, response |-> <<>>]
               ELSE LET response == deserialize_response(serialized[1].value)
                    IN [raised |-> FALSE,
                        response |-> << [response EXCEPT !.raw_headers =
                                           HSet(@, "x-cache", <<"hit">>)] >>]

\* store_in_cache: "ResponseNotCachable" (the store as it was), or the store
\* with the response written to it and the headers of the response as patched.
\* A set the store fails is caught here: the response is not cached, and its
\* headers, patched for the entry that was to be written, stay patched.
store_in_cache(response, request, cache, rs) ==
    LET rule == get_rule_matching_response(rs, request.path, response.status_code)
        ttl == IF rule = 0 THEN 0
               ELSE IF rs[rule].ttl /= <<>> THEN rs[rule].ttl[1] ELSE CACHE_TTL
        rejected == [raised |-> TRUE, cache |-> cache,
                     raw_headers |-> response.raw_headers, key |-> <<>>]
    IN IF rule = 0 \/ ttl = 0
       THEN rejected
       ELSE IF rs[rule].status = <<>>
               /\ response.status_code \notin CACHABLE_STATUS_CODES
       THEN rejected
       ELSE IF request.headers["cookie"] = ""
               /\ HHas(response.raw_headers, "set-cookie")
       THEN rejected
       ELSE IF ~cache.up
       THEN [rejected EXCEPT !.raw_headers = patch_cache_headers(@, ttl)]
       ELSE LET patched == [response EXCEPT !.raw_headers =
                                patch_cache_headers(@, ttl)]
                learnt == learn_cache_key(request, patched, cache)
                stored == [patched EXCEPT !.raw_headers = learnt.raw_headers]
                entry == [value |-> serialize_response(stored), ttl |-> ttl]
            IN [raised |-> FALSE,
                cache |-> [learnt.cache EXCEPT !.page =
                              MapSet(@, learnt.key, entry)],
                raw_headers |-> HSet(stored.raw_headers, "x-cache", <<"miss">>),
                key |-> <<learnt.key>>]

\* delete_from_cache(url, vary=headers): delete the entry of the url for the
\* values `vary` gives the varying headers.  A get or delete the store fails
\* is caught here: nothing is deleted.
delete_from_cache(path, vary, cache) ==
    LET varying_headers == MapGet(cache.vary, path)
    IN IF ~cache.up \/ varying_headers = <<>>
       THEN cache
       ELSE [cache EXCEPT !.page =
                MapDelete(@, generate_cache_key(path, "GET", vary,
                                                varying_headers[1]))]

\* ------------------------------------------------------------- the state
Clients == {"c1", "c2"}

VARIABLES
    rules,      \* CacheMiddleware.rules
    cache,      \* CacheMiddleware.cache: the store
    special_cache,  \* the store of a CacheMiddleware nested in the first
    req,        \* per client: its request in flight and the CacheResponder
    nreq,       \* requests started so far
    origin,     \* history: per stored response, the request that stored it
    call        \* a call of the rule matcher: its arguments and its results;
                \* or the directives a CacheControlMiddleware was given

vars == <<rules, cache, special_cache, req, nreq, origin, call>>

NoHeaders == [n \in Range(HeaderNames) |-> ""]

\* A client with no request in flight.  `scope` holds the keys middlewares
\* have put in the ASGI scope of the request, `raised` the exception that
\* reached the caller, `pending` what a call of the send channel that is
\* suspended at an await has still to do.  The fields from `lookup` on are history: what the
\* lookup gave, how many lookups were made, whether the application was
\* called and whether that application, a CacheMiddleware itself, was entered,
\* the steps of the request ("lookup", "start", "chunk", "final") at which the
\* store was failing,
\* the store when the request arrived and whether a GET would have hit then,
\* the messages the application sent and the messages the client received.
Idle ==
    [pc |-> "idle", n |-> 0,
     method |-> "", path |-> <<>>, headers |-> NoHeaders,
     scope |-> {}, raised |-> "",
     send |-> "", initial_message |-> <<>>, is_response_cachable |-> TRUE,
     lookup |-> "", lookups |-> 0, app_called |-> FALSE, nested |-> FALSE,
     outage |-> {},
     cache_before |-> EmptyCache, was_cached |-> FALSE,
     emitted |-> <<>>, sent |-> <<>>,
     pending |-> <<>>]

NoCall == [done |-> FALSE, path |-> <<>>, status |-> 0,
           request_rule |-> 0, response_rule |-> 0]

\* The rule lists a middleware is configured with.
Configs ==
    { <<DefaultRule>>,
      <<Rule(One(StrItem(PathA)), None, Some(0)), DefaultRule>>,
      <<Rule(One(StrItem(Star)), None, Some(60)),
        Rule(One(StrItem(PathA)), None, Some(0))>>,
      <<Rule(One(ReItem(PathAB)), Some(StatusInt(200)), Some(60))>>,
      <<Rule(Many(<<StrItem(Root), ReItem(PathA)>>),
             Some(StatusSet({307, 404})), None),
        Rule(One(StrItem(PathA)), None, Some(0)),
        DefaultRule>>,
      <<Rule(One(StrItem(PathA)), Some(StatusInt(404)), Some(30)),
        Rule(One(StrItem(Star)), None, Some(60))>> }

Init ==
    /\ rules \in Configs
    /\ cache = EmptyCache
    /\ special_cache = EmptyCache
    /\ req = [c \in Clients |-> Idle]
    /\ nreq = 0
    /\ origin = <<>>
    /\ call = NoCall

\* Would a GET with these headers be answered from the store?
WouldHit(path, headers, store) ==
    LET got == get_from_cache([method |-> "GET", path |-> path,
                               headers |-> headers], store, rules)
    IN ~got.raised /\ got.response /= <<>>

\* ----------------------------------------------- CacheResponder.__call__
\* Respond with the `return` after the replay missing: the application is
\* called on a hit too.
RespondFallThrough(r, got) ==
    IF got.raised
    THEN [r EXCEPT !.pc = "app", !.lookup = "not_cachable",
                   !.app_called = TRUE,
                   !.send = IF r.method \in INVALIDATING_METHODS
                            THEN "send_then_invalidate"
                            ELSE "send"]
    ELSE IF got.response /= <<>>
    THEN [r EXCEPT !.pc = "app", !.lookup = "hit", !.app_called = TRUE,
                   !.send = "send",
                   !.sent = ResponseMessages(got.response[1])]
    ELSE [r EXCEPT !.pc = "app", !.lookup = "miss",
                   !.app_called = TRUE,
                   !.send = "send_with_caching"]

\* Respond without the test for None: what the lookup returned is replayed,
\* and calling None raises.
RespondReplayNone(r, got) ==
    IF got.raised
    THEN [r EXCEPT !.pc = "app", !.lookup = "not_cachable",
                   !.app_called = TRUE,
                   !.send = IF r.method \in INVALIDATING_METHODS
                            THEN "send_then_invalidate"
                            ELSE "send"]
    ELSE IF got.response /= <<>>
    THEN [r EXCEPT !.pc = "done", !.lookup = "hit",
                   !.sent = ResponseMessages(got.response[1])]
    ELSE [r EXCEPT !.pc = "raised", !.lookup = "miss",
                   !.raised = "TypeError"]

\* Respond that gives the application send_with_caching also when the
\* request is not cachable and its method does not invalidate.
RespondBufferNotCachable(r, got) ==
    IF got.raised
    THEN [r EXCEPT !.pc = "app", !.lookup = "not_cachable",
                   !.app_called = TRUE,
                   !.send = IF r.method \in INVALIDATING_METHODS
                            THEN "send_then_invalidate"
                            ELSE "send_with_caching"]
    ELSE IF got.response /= <<>>
    THEN [r EXCEPT !.pc = "done", !.lookup = "hit",
                   !.sent = ResponseMessages(got.response[1])]
    ELSE [r EXCEPT !.pc = "app", !.lookup = "miss",
                   !.app_called = TRUE,
                   !.send = "send_with_caching"]

\* The responder after __call__ has looked the request up (`got`): a hit is
\* replayed to the client and the application is not called; otherwise the
\* application is called with the send channel the lookup decided.
Respond(r, got) ==
    IF got.raised
    THEN [r EXCEPT !.pc = "app", !.lookup = "not_cachable",
                   !.app_called = TRUE,
                   !.send = IF r.method \in INVALIDATING_METHODS
                            THEN "send_then_invalidate"
                            ELSE "send"]
    ELSE IF got.response /= <<>>
    THEN [r EXCEPT !.pc = "done", !.lookup = "hit",
                   !.sent = ResponseMessages(got.response[1])]
    ELSE [r EXCEPT !.pc = "app", !.lookup = "miss",
                   !.app_called = TRUE,
                   !.send = "send_with_caching"]

\* ----------------------------------------------- CacheMiddleware.__call__
\* CacheMiddleware.__call__ without the test for a scope already marked.
CacheMiddleware__call__unchecked(r, store, rs) ==
    LET request == [method |-> r.method, path |-> r.path, headers |-> r.headers]
    IN Respond([r EXCEPT !.scope = @ \cup {SCOPE_NAME},
                         !.lookups = @ + 1],
               get_from_cache(request, store, rs))

\* A middleware with store `store` and rules `rs` is called with an http
\* scope: it raises DuplicateCaching when the scope is marked already;
\* otherwise it marks the scope and hands the request to a new CacheResponder,
\* which looks it up.
CacheMiddleware__call__(r, store, rs) ==
    IF SCOPE_NAME \in r.scope
    THEN [r EXCEPT !.pc = "raised", !.raised = "DuplicateCaching"]
    ELSE LET request == [method |-> r.method, path |-> r.path,
                         headers |-> r.headers]
         IN Respond([r EXCEPT !.scope = @ \cup {SCOPE_NAME},
                              !.lookups = @ + 1],
                    get_from_cache(request, store, rs))

\* A request arrives from the server, its scope fresh.
Request(c, method, path, headers) ==
    /\ req[c].pc = "idle"
    /\ nreq < MaxRequests
    /\ LET r == [Idle EXCEPT !.n = nreq + 1, !.method = method,
                             !.path = path, !.headers = headers,
                             !.outage = IF cache.up THEN {} ELSE {"lookup"},
                             !.cache_before = cache,
                             !.was_cached = WouldHit(path, headers, cache)]
       IN req' = [req EXCEPT ![c] = CacheMiddleware__call__(r, cache, rules)]
    /\ nreq' = nreq + 1
    /\ UNCHANGED <<rules, cache, special_cache, origin, call>>

\* The application the middleware wraps is a second CacheMiddleware, with a
\* store of its own and the default rules: the responder calls it with the
\* scope of the request.  What it raises is caught by neither the responder
\* nor the first middleware.
Nested(c) ==
    /\ req[c].pc = "app"
    /\ req[c].emitted = <<>>
    /\ ~req[c].nested
    /\ req' = [req EXCEPT ![c] =
                  CacheMiddleware__call__([req[c] EXCEPT !.nested = TRUE],
                                          special_cache, <<DefaultRule>>)]
    /\ UNCHANGED <<rules, cache, special_cache, nreq, origin, call>>

\* ------------------------------------------------------ send_with_caching
\* The branches of CacheResponder.send_with_caching.  Each gives the responder
\* and the store after the call, and the key written if the response was
\* stored.

\* The response is known not to be cachable: the message goes straight on.
PassThrough(r, message, store) ==
    [r |-> [r EXCEPT !.sent = Append(@, message)], cache |-> store, key |-> <<>>]

\* Defer that also sends the start on at once.
DeferForward(r, message, store) ==
    [r |-> [r EXCEPT !.initial_message = <<message>>,
                     !.sent = Append(@, message)],
     cache |-> store, key |-> <<>>]

\* Defer that gives up on caching and sends the start on.
DeferUncachable(r, message, store) ==
    [r |-> [r EXCEPT !.is_response_cachable = FALSE,
                     !.sent = Append(@, message)],
     cache |-> store, key |-> <<>>]

\* The start of the response is held back.
Defer(r, message, store) ==
    [r |-> [r EXCEPT !.initial_message = <<message>>], cache |-> store,
     key |-> <<>>]

\* FlushStreaming without the start that was held back.
FlushStreamingNoStart(r, message, store) ==
    [r |-> [r EXCEPT !.is_response_cachable = FALSE,
                     !.sent = Append(@, message)],
     cache |-> store, key |-> <<>>]

\* A body chunk with more to follow: the response is streaming.
FlushStreaming(r, message, store) ==
    [r |-> [r EXCEPT !.is_response_cachable = FALSE,
                     !.sent = @ \o r.initial_message \o <<message>>],
     cache |-> store, key |-> <<>>]

\* BufferedResponse without the status of the start: Response(content=body)
\* has status 200.
BufferedResponseStatus200(initial, message) ==
    [status_code |-> 200,
     raw_headers |-> initial.headers,
     body |-> message.body]

\* BufferedResponse without the headers of the start.
BufferedResponseNoHeaders(initial, message) ==
    [status_code |-> initial.status,
     raw_headers |-> <<>>,
     body |-> message.body]

\* The response the store is asked to keep: the body of the message with the
\* status and a copy of the headers of the start that was held back.
BufferedResponse(initial, message) ==
    [status_code |-> initial.status,
     raw_headers |-> initial.headers,
     body |-> message.body]

\* PatchedStart without the headers of store_in_cache.
PatchedStartAsHeld(initial, out) == initial

\* PatchedStart that takes the headers of the response store_in_cache was
\* given whether or not it raised.
PatchedStartAlways(initial, out) == [initial EXCEPT !.headers = out.raw_headers]

\* The start that is sent on: with the headers store_in_cache added or
\* modified when it stored the response, as it was when it did not.
PatchedStart(initial, out) ==
    IF out.raised
    THEN initial
    ELSE [initial EXCEPT !.headers = out.raw_headers]

\* StoreAndFlush that returns when the response is not cachable.
StoreAndFlushDropRejected(r, message, store) ==
    LET initial == r.initial_message[1]
        response == BufferedResponse(initial, message)
        request == [method |-> r.method, path |-> r.path, headers |-> r.headers]
        out == store_in_cache(response, request, store, rules)
        start == PatchedStart(initial, out)
    IN [r |-> [r EXCEPT !.is_response_cachable = ~out.raised,
                        !.initial_message = <<start>>,
                        !.sent = IF out.raised THEN @
                                 ELSE @ \o <<start, message>>],
        cache |-> out.cache, key |-> out.key]

\* StoreAndFlush of a responder that is shared by the requests in flight: the
\* start held is the one of the youngest of them.
StoreAndFlushShared(r, message, store) ==
    LET holders == {c \in Clients : req[c].pc = "app"
                                     /\ req[c].initial_message /= <<>>}
        latest == CHOOSE c \in holders : \A d \in holders : req[d].n <= req[c].n
        initial == req[latest].initial_message[1]
        response == BufferedResponse(initial, message)
        request == [method |-> r.method, path |-> r.path, headers |-> r.headers]
        out == store_in_cache(response, request, store, rules)
        start == PatchedStart(initial, out)
    IN [r |-> [r EXCEPT !.is_response_cachable = ~out.raised,
                        !.initial_message = <<start>>,
                        !.sent = @ \o <<start, message>>],
        cache |-> out.cache, key |-> out.key]

\* StoreAndFlush of a responder that was not given the rules of the
\* middleware and has the default ones.
StoreAndFlushDefaultRules(r, message, store) ==
    LET initial == r.initial_message[1]
        response == BufferedResponse(initial, message)
        request == [method |-> r.method, path |-> r.path, headers |-> r.headers]
        out == store_in_cache(response, request, store, <<DefaultRule>>)
        start == PatchedStart(initial, out)
    IN [r |-> [r EXCEPT !.is_response_cachable = ~out.raised,
                        !.initial_message = <<start>>,
                        !.sent = @ \o <<start, message>>],
        cache |-> out.cache, key |-> out.key]

\* StoreAndFlush with a request that has lost its headers.
StoreAndFlushBareRequest(r, message, store) ==
    LET initial == r.initial_message[1]
        response == BufferedResponse(initial, message)
        request == [method |-> r.method, path |-> r.path, headers |-> NoHeaders]
        out == store_in_cache(response, request, store, rules)
        start == PatchedStart(initial, out)
    IN [r |-> [r EXCEPT !.is_response_cachable = ~out.raised,
                        !.initial_message = <<start>>,
                        !.sent = @ \o <<start, message>>],
        cache |-> out.cache, key |-> out.key]

\* The whole body in one message: store the response if it is cachable.
StoreAndFlush(r, message, store) ==
    LET initial == r.initial_message[1]
        response == BufferedResponse(initial, message)
        request == [method |-> r.method, path |-> r.path, headers |-> r.headers]
        out == store_in_cache(response, request, store, rules)
        start == PatchedStart(initial, out)
    IN [r |-> [r EXCEPT !.is_response_cachable = ~out.raised,
                        !.initial_message = <<start>>,
                        !.sent = @ \o <<start, message>>],
        cache |-> out.cache, key |-> out.key]

\* send_with_caching without the test for more_body: every body message is
\* taken for the whole body.
send_with_caching_no_streaming(r, message, store) ==
    IF ~r.is_response_cachable
    THEN PassThrough(r, message, store)
    ELSE IF message.type = "http.response.start"
    THEN Defer(r, message, store)
    ELSE StoreAndFlush(r, message, store)

send_with_caching(r, message, store) ==
    IF ~r.is_response_cachable
    THEN PassThrough(r, message, store)
    ELSE IF message.type = "http.response.start"
    THEN Defer(r, message, store)
    ELSE IF message.more_body
    THEN FlushStreaming(r, message, store)
    ELSE StoreAndFlush(r, message, store)

\* ---------------------------------------------------- send_then_invalidate
\* send_then_invalidate that takes only 2xx for success.
send_then_invalidate_2xx(r, message, store) ==
    [r |-> [r EXCEPT !.sent = Append(@, message)],
     cache |-> IF message.type = "http.response.start"
                  /\ 200 <= message.status /\ message.status < 300
               THEN delete_from_cache(r.path, r.headers, store)
               ELSE store,
     key |-> <<>>]

\* send_then_invalidate without the lower bound on the status.
send_then_invalidate_below_400(r, message, store) ==
    [r |-> [r EXCEPT !.sent = Append(@, message)],
     cache |-> IF message.type = "http.response.start"
                  /\ message.status < 400
               THEN delete_from_cache(r.path, r.headers, store)
               ELSE store,
     key |-> <<>>]

\* send_then_invalidate that leaves out vary=: the key is made from no
\* header values.
send_then_invalidate_no_vary(r, message, store) ==
    [r |-> [r EXCEPT !.sent = Append(@, message)],
     cache |-> IF message.type = "http.response.start"
                  /\ 200 <= message.status /\ message.status < 400
               THEN delete_from_cache(r.path, NoHeaders, store)
               ELSE store,
     key |-> <<>>]

\* send_then_invalidate that sends the message on before it deletes.
send_then_invalidate_send_first(r, message, store) ==
    LET invalidates == message.type = "http.response.start"
                          /\ 200 <= message.status /\ message.status < 400
    IN [r |-> [r EXCEPT !.sent = Append(@, message)],
        cache |-> IF invalidates
                  THEN delete_from_cache(r.path, r.headers, store)
                  ELSE store,
        key |-> <<>>,
        awaits |-> IF invalidates THEN <<"send", "delete">> ELSE <<"send">>]

\* The responder and the store after the call; `awaits` are the awaits of the
\* call in their order: the delete of the entry, the send of the message.
send_then_invalidate(r, message, store) ==
    LET invalidates == message.type = "http.response.start"
                          /\ 200 <= message.status /\ message.status < 400
    IN [r |-> [r EXCEPT !.sent = Append(@, message)],
        cache |-> IF invalidates
                  THEN delete_from_cache(r.path, r.headers, store)
                  ELSE store,
        key |-> <<>>,
        awaits |-> IF invalidates THEN <<"delete", "send">> ELSE <<"send">>]

\* The send channel the application was given.
Send(r, message, store) ==
    CASE r.send = "send_with_caching" -> send_with_caching(r, message, store)
      [] r.send = "send_then_invalidate" -> send_then_invalidate(r, message, store)
      [] OTHER -> [r |-> [r EXCEPT !.sent = Append(@, message)],
                   cache |-> store, key |-> <<>>]

\* The history of the stored responses after a call of the send channel: the
\* response just stored is the caller's, a deleted one is forgotten.
Origins(out) ==
    [k \in DOMAIN out.cache.page |->
        IF out.key = <<k>>
        THEN [n |-> out.r.n, method |-> out.r.method, path |-> out.r.path,
              headers |-> out.r.headers, emitted |-> out.r.emitted,
              answer |-> out.r.sent]
        ELSE origin[k]]

\* ------------------------------------------------------- the application
\* The headers a handler puts on its response.
HandlerHeaders(vary, cookie) ==
    <<<<"content-type", <<"text/plain">>>>>>
        \o (IF vary THEN <<<<"vary", <<"Accept-Encoding">>>>>> ELSE <<>>)
        \o (IF cookie THEN <<<<"set-cookie", <<"session_id=1234">>>>>> ELSE <<>>)

\* The body of the i-th chunk of the n-th request's response.
Chunk(n, i) == "r" \o ToString(n) \o "." \o ToString(i)

BodiesIn(msgs) ==
    LET IsBody(m) == m.type = "http.response.body" IN SelectSeq(msgs, IsBody)

\* The application sends the start of its response.
AppStart(c, status, vary, cookie) ==
    /\ req[c].pc = "app"
    /\ req[c].emitted = <<>>
    /\ LET message == StartMsg(status, HandlerHeaders(vary, cookie))
           out == Send([req[c] EXCEPT
                           !.emitted = Append(@, message),
                           !.outage = @ \cup IF cache.up THEN {} ELSE {"start"}],
                       message, cache)
       IN /\ req' = [req EXCEPT ![c] = out.r]
          /\ cache' = out.cache
          /\ origin' = Origins(out)
    /\ UNCHANGED <<rules, special_cache, nreq, call>>

\* The application of a request with an invalidating method sends the start
\* of its response: send_then_invalidate runs up to its first await, and the
\* other tasks run before it goes on.
InvalidatingStart(c, status) ==
    /\ req[c].pc = "app"
    /\ req[c].emitted = <<>>
    /\ req[c].send = "send_then_invalidate"
    /\ LET message == StartMsg(status, HandlerHeaders(FALSE, FALSE))
           r == [req[c] EXCEPT !.emitted = Append(@, message)]
           out == send_then_invalidate(r, message, cache)
           first == out.awaits[1]
       IN /\ req' = [req EXCEPT ![c] =
                        [r EXCEPT !.sent = IF first = "send" THEN out.r.sent ELSE @,
                                  !.pending = Tail(out.awaits)]]
          /\ cache' = IF first = "delete" THEN out.cache ELSE cache
          /\ origin' = [k \in DOMAIN cache'.page |-> origin[k]]
    /\ UNCHANGED <<rules, special_cache, nreq, call>>

\* The call of send_then_invalidate goes on after its await.
Resume(c) ==
    /\ req[c].pending /= <<>>
    /\ LET r == req[c]
           message == r.emitted[Len(r.emitted)]
           next == r.pending[1]
       IN /\ req' = [req EXCEPT ![c] =
                        [r EXCEPT !.sent = IF next = "send"
                                           THEN Append(@, message) ELSE @,
                                  !.pending = Tail(@)]]
          /\ cache' = IF next = "delete"
                      THEN delete_from_cache(r.path, r.headers, cache)
                      ELSE cache
          /\ origin' = [k \in DOMAIN cache'.page |-> origin[k]]
    /\ UNCHANGED <<rules, special_cache, nreq, call>>

\* The application sends a body chunk; after the last one it returns.
AppBody(c, more) ==
    /\ req[c].pc = "app"
    /\ req[c].emitted /= <<>>
    /\ LET i == Len(BodiesIn(req[c].emitted)) + 1
           message == BodyMsg(Chunk(req[c].n, i), more)
           step == IF more THEN "chunk" ELSE "final"
           out == Send([req[c] EXCEPT
                           !.emitted = Append(@, message),
                           !.outage = @ \cup IF cache.up THEN {} ELSE {step}],
                       message, cache)
       IN /\ i <= MaxChunks
          /\ more => i < MaxChunks
          /\ req' = [req EXCEPT ![c] =
                        [out.r EXCEPT !.pc = IF more THEN "app" ELSE "done"]]
          /\ cache' = out.cache
          /\ origin' = Origins(out)
    /\ UNCHANGED <<rules, special_cache, nreq, call>>

\* The application returns, or raises, before it has sent the last chunk of
\* the body: the responder's __call__ ends with it, an exception goes on to
\* the caller.
AppEnds(c, failed) ==
    /\ req[c].pc = "app"
    /\ req' = [req EXCEPT ![c] =
                  IF failed
                  THEN [@ EXCEPT !.pc = "raised", !.raised = "HandlerError"]
                  ELSE [@ EXCEPT !.pc = "done"]]
    /\ UNCHANGED <<rules, cache, special_cache, nreq, origin, call>>

\* The application sends a message after the last chunk of the body: a body
\* message, or the start of a response again.
AppExtra(c, kind) ==
    /\ req[c].pc = "done"
    /\ req[c].app_called
    /\ req[c].emitted /= <<>>
    /\ LET i == Len(BodiesIn(req[c].emitted)) + 1
           message == IF kind = "start"
                      THEN StartMsg(200, HandlerHeaders(FALSE, FALSE))
                      ELSE BodyMsg(Chunk(req[c].n, i), kind = "chunk")
           out == Send([req[c] EXCEPT !.emitted = Append(@, message)],
                       message, cache)
       IN /\ Len(req[c].emitted) <= MaxChunks
          /\ ~req[c].emitted[Len(req[c].emitted)].more_body
          /\ req' = [req EXCEPT ![c] = out.r]
          /\ cache' = out.cache
          /\ origin' = Origins(out)
    /\ UNCHANGED <<rules, special_cache, nreq, call>>

\* The client has its response, or the exception; the responder is dropped.
Release(c) ==
    /\ req[c].pc \in {"done", "raised"}
    /\ req' = [req EXCEPT ![c] = Idle]
    /\ UNCHANGED <<rules, cache, special_cache, nreq, origin, call>>

\* ------------------------------------------------ CacheControlMiddleware
\* The directives CacheControlMiddleware takes (CacheDirectives), as they are
\* named in the header.
CacheDirectives ==
    {"max-age", "s-maxage", "no-cache", "no-store", "no-transform",
     "must-revalidate", "proxy-revalidate", "must-understand", "private",
     "public", "immutable", "stale-while-revalidate", "stale-if-error"}

\* CacheControlResponder.send_with_caching that patches a copy of the headers
\* and does not put it back in the message.
CacheControlResponder_send_with_caching_copy(r, message, kwargs) ==
    [r EXCEPT !.sent = Append(@, message)]

\* CacheControlResponder.send_with_caching: the headers of the start are
\* patched with the directives of the middleware, and the message is sent on.
CacheControlResponder_send_with_caching(r, message, kwargs) ==
    IF message.type = "http.response.start"
    THEN [r EXCEPT !.sent = Append(@,
              [message EXCEPT !.headers = patch_cache_control(@, kwargs)])]
    ELSE [r EXCEPT !.sent = Append(@, message)]

\* What the clients ask and the handlers answer in a specification; `nested`
\* are the paths routed to a second CacheMiddleware.
Core ==
    [methods |-> {"GET", "POST"},
     paths |-> {PathA, PathAB},
     encodings |-> {"gzip", "identity"},
     cookies |-> {""},
     statuses |-> Statuses,
     vary |-> BOOLEAN,
     set_cookie |-> {FALSE},
     nested |-> {}]

\* Requests to one resource that differ in method, encoding and cookie.
Keys ==
    [methods |-> {"GET", "HEAD", "POST"},
     paths |-> {PathA},
     encodings |-> {"gzip", "identity"},
     cookies |-> {"", "session_id=1234"},
     statuses |-> {200},
     vary |-> BOOLEAN,
     set_cookie |-> {FALSE},
     nested |-> {}]

RequestHeaders(enc, cookie) ==
    [n \in Range(HeaderNames) |-> IF n = "accept-encoding" THEN enc ELSE cookie]

Serve(c, D) ==
    \/ \E m \in D.methods, p \in D.paths, e \in D.encodings, k \in D.cookies :
           Request(c, m, p, RequestHeaders(e, k))
    \/ \E s \in D.statuses, v \in D.vary, k \in D.set_cookie :
           /\ req[c].path \in D.nested => req[c].nested
           /\ AppStart(c, s, v, k)
    \/ \E more \in BOOLEAN : AppBody(c, more)
    \/ Release(c)

\* One request at a time.
Next == Serve("c1", Core)

Spec == Init /\ [][Next]_vars

NextKeys == Serve("c1", Keys)

SpecKeys == Init /\ [][NextKeys]_vars

\* A second CacheMiddleware is mounted on one path of an application that is
\* wrapped in a CacheMiddleware as a whole.
Mounted ==
    [methods |-> {"GET", "POST"},
     paths |-> {PathA, PathAB},
     encodings |-> {"gzip"},
     cookies |-> {""},
     statuses |-> {200, 404},
     vary |-> {FALSE},
     set_cookie |-> {FALSE},
     nested |-> {PathAB}]

NextNested ==
    \/ Serve("c1", Mounted)
    \/ req["c1"].path \in Mounted.nested /\ Nested("c1")

SpecNested == Init /\ [][NextNested]_vars

\* The backend of the store goes down, or comes back.
Outage ==
    /\ cache' = [cache EXCEPT !.up = ~@]
    /\ UNCHANGED <<rules, special_cache, req, nreq, origin, call>>

\* Requests to one resource while the store fails now and then.
Faults ==
    [methods |-> {"GET", "POST"},
     paths |-> {PathAB},
     encodings |-> {"gzip"},
     cookies |-> {""},
     statuses |-> {200, 404},
     vary |-> {FALSE},
     set_cookie |-> {FALSE},
     nested |-> {}]

NextFaults ==
    \/ Serve("c1", Faults)
    \/ Outage

SpecFaults == Init /\ [][NextFaults]_vars

\* Two clients ask for one resource at the same time: each request is a task
\* of its own, the tasks interleave at the messages of their handlers.
Twin ==
    [methods |-> {"GET"},
     paths |-> {PathAB},
     encodings |-> {"gzip"},
     cookies |-> {""},
     statuses |-> {200, 404},
     vary |-> BOOLEAN,
     set_cookie |-> {FALSE},
     nested |-> {}]

NextTwin == \E c \in Clients : Serve(c, Twin)

SpecTwin == Init /\ [][NextTwin]_vars

\* ------------------------------------------------- the rule matcher alone
\* The rule lists, paths and statuses the matcher is called with.
RuleMatches ==
    { One(StrItem(Star)), One(StrItem(PathA)), One(ReItem(PathA)),
      Many(<<StrItem(Root), ReItem(PathAB)>>) }
RuleStatuses == { None, Some(StatusInt(200)), Some(StatusSet({200, 404})) }
RuleTtls == { None, Some(0) }
RuleUniverse ==
    { Rule(m, s, t) : m \in RuleMatches, s \in RuleStatuses, t \in RuleTtls }
RuleLists == UNION { [1..n -> RuleUniverse] : n \in 0..MaxRules }

InitRules ==
    /\ rules \in RuleLists
    /\ cache = EmptyCache
    /\ special_cache = EmptyCache
    /\ req = [c \in Clients |-> Idle]
    /\ nreq = 0
    /\ origin = <<>>
    /\ \E p \in Paths, s \in Statuses :
           call = [NoCall EXCEPT !.path = p, !.status = s]

\* get_rule_matching_request and get_rule_matching_response are called.
Match ==
    /\ ~call.done
    /\ call' = [call EXCEPT
                   !.done = TRUE,
                   !.request_rule = get_rule_matching_request(rules, call.path),
                   !.response_rule =
                       get_rule_matching_response(rules, call.path, call.status)]
    /\ UNCHANGED <<rules, cache, special_cache, req, nreq, origin>>

NextRules == Match

SpecRules == InitRules /\ [][NextRules]_vars

\* GETs with and without a cookie to a handler that now and then sets one.
Cookied ==
    [methods |-> {"GET"},
     paths |-> {PathA},
     encodings |-> {"gzip"},
     cookies |-> {"", "session_id=1234"},
     statuses |-> {200},
     vary |-> BOOLEAN,
     set_cookie |-> BOOLEAN,
     nested |-> {}]

NextCookies == Serve("c1", Cookied)

SpecCookies == Init /\ [][NextCookies]_vars

\* Handlers that may end, or fail, at any point of their response.
Cut ==
    [methods |-> {"GET", "POST"},
     paths |-> {PathAB},
     encodings |-> {"gzip"},
     cookies |-> {""},
     statuses |-> {200, 404},
     vary |-> {FALSE},
     set_cookie |-> {FALSE},
     nested |-> {}]

NextCut ==
    \/ Serve("c1", Cut)
    \/ \E failed \in BOOLEAN : AppEnds("c1", failed)

SpecCut == Init /\ [][NextCut]_vars

\* Handlers that go on sending after the last chunk of the body.
Late ==
    [methods |-> {"GET", "POST"},
     paths |-> {PathAB},
     encodings |-> {"gzip"},
     cookies |-> {""},
     statuses |-> {200, 404},
     vary |-> {FALSE},
     set_cookie |-> {FALSE},
     nested |-> {}]

NextLate ==
    \/ Serve("c1", Late)
    \/ \E kind \in {"start", "chunk", "final"} : AppExtra("c1", kind)

SpecLate == Init /\ [][NextLate]_vars

\* Two clients read and change one resource at the same time; the tasks
\* interleave at the messages of their handlers and at the await between the
\* delete and the send of send_then_invalidate.
Shared ==
    [methods |-> {"GET", "POST"},
     paths |-> {PathAB},
     encodings |-> {"gzip"},
     cookies |-> {""},
     statuses |-> {200, 404},
     vary |-> {FALSE},
     set_cookie |-> {FALSE},
     nested |-> {}]

NextShared ==
    \E c \in Clients :
        \/ \E m \in Shared.methods, p \in Shared.paths :
               Request(c, m, p, RequestHeaders("gzip", ""))
        \/ \E s \in Shared.statuses :
               /\ req[c].send /= "send_then_invalidate"
               /\ AppStart(c, s, FALSE, FALSE)
        \/ \E s \in Shared.statuses : InvalidatingStart(c, s)
        \/ Resume(c)
        \/ \E more \in BOOLEAN : req[c].pending = <<>> /\ AppBody(c, more)
        \/ req[c].pending = <<>> /\ Release(c)

SpecShared == Init /\ [][NextShared]_vars

\* Requests with methods that neither read from the store nor invalidate,
\* next to GETs, and handlers that answer them in every way.
Plain ==
    [methods |-> {"GET", "OPTIONS"},
     paths |-> {PathA, PathAB},
     encodings |-> {"gzip"},
     cookies |-> {""},
     statuses |-> {200, 404},
     vary |-> BOOLEAN,
     set_cookie |-> BOOLEAN,
     nested |-> {}]

NextPlain == Serve("c1", Plain)

SpecPlain == Init /\ [][NextPlain]_vars

\* ------------------------------------------- requests under rules of a kind
\* Rule lists that differ in what their rules match only: no rule filters on
\* the status or sets a ttl.
MatchConfigs ==
    UNION { [1..n -> {Rule(m, None, None) : m \in RuleMatches}]
            : n \in 0..MaxRules }

InitMatch ==
    /\ rules \in MatchConfigs
    /\ cache = EmptyCache
    /\ special_cache = EmptyCache
    /\ req = [c \in Clients |-> Idle]
    /\ nreq = 0
    /\ origin = <<>>
    /\ call = NoCall

\* GETs to every path, answered 200.
Matching ==
    [methods |-> {"GET"},
     paths |-> Paths,
     encodings |-> {"gzip"},
     cookies |-> {""},
     statuses |-> {200},
     vary |-> {FALSE},
     set_cookie |-> {FALSE},
     nested |-> {}]

NextMatch == Serve("c1", Matching)

SpecMatch == InitMatch /\ [][NextMatch]_vars

\* --------------------------------------- the CacheControlMiddleware alone
\* The directives a middleware is given and a handler sets, with their values.
PatchNames == CacheDirectives \cap {"max-age", "must-revalidate", "no-store"}
PatchValues(name) == IF name = "max-age" THEN {<<30>>, <<60>>} ELSE {<<>>}
DirectiveLists ==
    UNION { {kw \in [1..n -> {<<name, v>> : name \in PatchNames,
                                            v \in {<<>>, <<30>>, <<60>>}}] :
                /\ \A i \in 1..n : kw[i][2] \in PatchValues(kw[i][1])
                /\ \A i, j \in 1..n : i /= j => kw[i][1] /= kw[j][1]}
            : n \in 0..MaxDirectives }

\* A CacheControlMiddleware with some directives wraps the application.
InitPatch ==
    /\ rules = <<>>
    /\ cache = EmptyCache
    /\ special_cache = EmptyCache
    /\ req = [c \in Clients |-> Idle]
    /\ nreq = 0
    /\ origin = <<>>
    /\ \E kw \in DirectiveLists \ {<<>>} : call = [done |-> FALSE, kwargs |-> kw]

\* The application is called and sends the start of its response, with the
\* Cache-Control directives `existing` and perhaps an Expires header.
ControlStart(c, existing, expires) ==
    /\ req[c].pc = "idle"
    /\ nreq < MaxRequests
    /\ LET cc == [i \in 1..Len(existing) |->
                     Directive(existing[i][1], existing[i][2])]
           headers == HandlerHeaders(FALSE, FALSE)
                        \o (IF cc = <<>> THEN <<>>
                            ELSE <<<<"cache-control", cc>>>>)
                        \o (IF expires THEN <<<<"expires", <<HttpDate(0)>>>>>>
                            ELSE <<>>)
           message == StartMsg(200, headers)
           r == [Idle EXCEPT !.pc = "app", !.n = nreq + 1, !.method = "GET",
                             !.path = PathA, !.app_called = TRUE,
                             !.send = "send_with_caching",
                             !.emitted = <<message>>]
       IN req' = [req EXCEPT ![c] =
                     CacheControlResponder_send_with_caching(r, message,
                                                             call.kwargs)]
    /\ nreq' = nreq + 1
    /\ UNCHANGED <<rules, cache, special_cache, origin, call>>

\* The application sends a body chunk; after the last one it returns.
ControlBody(c, more) ==
    /\ req[c].pc = "app"
    /\ LET i == Len(BodiesIn(req[c].emitted)) + 1
           message == BodyMsg(Chunk(req[c].n, i), more)
           r == [req[c] EXCEPT !.emitted = Append(@, message),
                               !.pc = IF more THEN "app" ELSE "done"]
       IN /\ i <= MaxChunks
          /\ more => i < MaxChunks
          /\ req' = [req EXCEPT ![c] =
                        CacheControlResponder_send_with_caching(r, message,
                                                                call.kwargs)]
    /\ UNCHANGED <<rules, cache, special_cache, nreq, origin, call>>

NextPatch ==
    \/ \E existing \in DirectiveLists, expires \in BOOLEAN :
           ControlStart("c1", existing, expires)
    \/ \E more \in BOOLEAN : ControlBody("c1", more)
    \/ Release("c1")

SpecPatch == InitPatch /\ [][NextPatch]_vars

\* ================================================================ claims
XCache(message) == HGet(message.headers, "x-cache")
WithoutXCache(message) == [message EXCEPT !.headers = HDel(@, "x-cache")]
Stored(k) == deserialize_response(cache.page[k].value)
InRange(status) == 200 <= status /\ status < 400
Complete(r) == Len(r.emitted) = 2 /\ ~r.emitted[2].more_body
Streaming(r) == Len(r.emitted) >= 2 /\ r.emitted[2].more_body

\* The first rule for a 200 response to the path allows caching.
CachingRule(path) ==
    LET i == get_rule_matching_response(rules, path, 200)
    IN i /= 0 /\ rules[i].ttl /= Some(0)

\* C1: a GET that misses and whose handler answers 200 in one chunk, on a path
\* with a caching rule, is answered X-Cache: miss and its response is stored;
\* a later identical request, while that response is in the store, is
\* answered X-Cache: hit with the status, body and headers (X-Cache aside) of
\* the first answer.
C1_MissThenHit ==
    \A c \in Clients :
        LET r == req[c]
        IN /\ ( /\ r.pc = "done" /\ r.method = "GET" /\ r.lookup = "miss"
                /\ Complete(r) /\ r.emitted[1].status = 200
                /\ CachingRule(r.path) )
              => /\ Len(r.sent) = 2
                 /\ XCache(r.sent[1]) = <<"miss">>
                 /\ \E k \in DOMAIN origin :
                        /\ origin[k].n = r.n
                        /\ Stored(k).status_code = 200
                        /\ Stored(k).body = r.emitted[2].body
           /\ \A k \in DOMAIN origin :
                  LET o == origin[k]
                  IN ( /\ r.pc /= "idle" /\ o.n < r.n
                       /\ o.method = r.method /\ o.path = r.path
                       /\ o.headers = r.headers )
                     => /\ r.lookup = "hit"
                        /\ Len(r.sent) = 2
                        /\ XCache(r.sent[1]) = <<"hit">>
                        /\ WithoutXCache(r.sent[1]) = WithoutXCache(o.answer[1])
                        /\ r.sent[2] = o.answer[2]

\* Witness of C1: the third request is a hit on the answer to the first.
C1_Witness ==
    \E c \in Clients, k \in DOMAIN origin :
        /\ req[c].pc = "done" /\ req[c].lookup = "hit" /\ req[c].n = 3
        /\ origin[k].n = 1 /\ origin[k].method = req[c].method
        /\ origin[k].path = req[c].path /\ origin[k].headers = req[c].headers
        /\ XCache(origin[k].answer[1]) = <<"miss">>

\* C2: on a hit the client receives the stored response and the application
\* is not called; the application is called exactly when the lookup misses or
\* the request is not cachable.
C2_HitSkipsHandler ==
    \A c \in Clients :
        LET r == req[c]
        IN r.pc /= "idle" =>
            /\ r.app_called <=> r.lookup \in {"miss", "not_cachable"}
            /\ r.lookup = "hit" =>
                  /\ r.pc = "done" /\ r.emitted = <<>>
                  /\ \E k \in DOMAIN cache.page :
                         r.sent = ResponseMessages(
                             [Stored(k) EXCEPT !.raw_headers =
                                 HSet(@, "x-cache", <<"hit">>)])

C2_Witness ==
    \E c \in Clients :
        /\ req[c].lookup = "hit" /\ ~req[c].app_called /\ Len(req[c].sent) = 2

\* C3: whatever the handler sends through send_with_caching, the client
\* receives one start and then the body chunks in the order sent, each once.
IsPrefix2(p, s) == Len(p) <= Len(s) /\ SubSeq(s, 1, Len(p)) = p

C3_ForwardedOnce ==
    \A c \in Clients :
        LET r == req[c]
        IN r.send = "send_with_caching" =>
            /\ r.sent /= <<>> =>
                  /\ r.sent[1].type = "http.response.start"
                  /\ r.sent[1].status = r.emitted[1].status
                  /\ Tail(r.sent) = BodiesIn(r.sent)
            /\ IsPrefix2(BodiesIn(r.sent), BodiesIn(r.emitted))
            /\ Len(r.emitted) >= 2 => BodiesIn(r.sent) = BodiesIn(r.emitted)
            /\ r.pc = "done" =>
                  /\ Len(r.sent) = Len(r.emitted)
                  /\ Tail(r.sent) = Tail(r.emitted)

\* Witness of C3: a streamed response of the most chunks has been forwarded.
C3_Witness ==
    \E c \in Clients :
        /\ req[c].send = "send_with_caching" /\ req[c].pc = "done"
        /\ Len(BodiesIn(req[c].emitted)) = MaxChunks
        /\ Len(req[c].sent) = MaxChunks + 1

\* C4: a response whose first body chunk has more_body set is not stored, its
\* start carries no X-Cache, and the same request again is not answered from
\* the store.
C4_StreamingNotStored ==
    \A c \in Clients :
        LET r == req[c]
            again == get_from_cache([method |-> r.method, path |-> r.path,
                                     headers |-> r.headers], cache, rules)
        IN Streaming(r) =>
            /\ \A k \in DOMAIN cache.page :
                   /\ origin[k].n /= r.n
                   /\ \A i \in 1..MaxChunks : Stored(k).body /= Chunk(r.n, i)
            /\ r.sent /= <<>> /\ XCache(r.sent[1]) = <<>>
            /\ again.raised \/ again.response = <<>>

\* Witness of C4: a streamed response to a request that was looked up and
\* that a rule would have let store.
C4_Witness ==
    \E c \in Clients :
        /\ Streaming(req[c]) /\ req[c].pc = "done"
        /\ req[c].send = "send_with_caching"
        /\ req[c].emitted[1].status = 200 /\ CachingRule(req[c].path)

\* The header names the response of a stored entry declared in its Vary, as
\* the handler sent it.
Declared(o) == Range(LowerAll(HGet(o.emitted[1].headers, "vary")))

\* The body a client was answered with.
AnswerBody(messages) == messages[2].body

\* C5: once a response declaring Vary is stored for a path, a later GET or
\* HEAD to the path is answered with that entry exactly when it carries, for
\* every header the Vary lists, the value the storing request carried.
C5_VaryPartitions ==
    \A c \in Clients : \A k \in DOMAIN origin :
        LET r == req[c]
            o == origin[k]
        IN ( /\ r.pc /= "idle" /\ r.method \in CACHABLE_METHODS
             /\ o.n < r.n /\ o.path = r.path
             /\ Declared(o) /= {} )
           => ( (\A h \in Declared(o) : r.headers[h] = o.headers[h])
                <=> ( /\ r.lookup = "hit"
                      /\ AnswerBody(r.sent) = AnswerBody(o.answer) ) )

\* Witness of C5: two entries of one path for two values of the listed header,
\* and a hit on one of them by a request that differs from the storing
\* request in a header that is not listed.
C5_Witness ==
    \E c \in Clients : \E k1, k2 \in DOMAIN origin :
        LET r == req[c]
        IN /\ k1 /= k2 /\ k1.path = k2.path
           /\ Declared(origin[k1]) = {"accept-encoding"}
           /\ r.lookup = "hit" /\ r.path = k1.path
           /\ AnswerBody(r.sent) = AnswerBody(origin[k1].answer)
           /\ r.headers["cookie"] /= origin[k1].headers["cookie"]
           /\ r.headers["accept-encoding"]
                 /= origin[k2].headers["accept-encoding"]

\* The values two requests to a path carry for the headers the path's
\* responses vary on are the same.
SameVarying(path, h1, h2) ==
    /\ path \in DOMAIN cache.vary
    /\ \A h \in Range(cache.vary[path]) : h1[h] = h2[h]

\* C6: an entry stored by a HEAD is hit by a later GET to the same path with
\* the same values of the varying headers, and one stored by a GET by a HEAD.
C6_HeadAndGetShareKey ==
    \A c \in Clients : \A k \in DOMAIN origin :
        LET r == req[c]
            o == origin[k]
        IN ( /\ r.pc /= "idle" /\ o.n < r.n /\ o.path = r.path
             /\ {o.method, r.method} = {"GET", "HEAD"}
             /\ SameVarying(r.path, o.headers, r.headers) )
           => /\ r.lookup = "hit"
              /\ XCache(r.sent[1]) = <<"hit">>
              /\ AnswerBody(r.sent) = AnswerBody(o.answer)

\* Witness of C6: a GET is answered with what a HEAD stored.
C6_Witness ==
    \E c \in Clients : \E k \in DOMAIN origin :
        /\ origin[k].method = "HEAD" /\ req[c].method = "GET"
        /\ req[c].lookup = "hit"
        /\ XCache(origin[k].answer[1]) = <<"miss">>
        /\ AnswerBody(req[c].sent) = AnswerBody(origin[k].answer)

Mutating(r) == r.method \in INVALIDATING_METHODS /\ r.sent /= <<>>

\* The store is the store before but for the entries of `gone`.
Without(store, before, gone) ==
    /\ store.vary = before.vary
    /\ DOMAIN store.page = (DOMAIN before.page) \ gone
    /\ \A k \in DOMAIN store.page : store.page[k] = before.page[k]

\* C7: once the start of the response to a POST, PUT, PATCH or DELETE with a
\* status in [200, 400) has been sent on, the entry a GET to the path with the
\* same header values hit is deleted (and no other): that GET now misses.
C7_SuccessInvalidates ==
    \A c \in Clients :
        LET r == req[c]
            got == get_from_cache([method |-> "GET", path |-> r.path,
                                   headers |-> r.headers], cache, rules)
        IN (Mutating(r) /\ InRange(r.sent[1].status)) =>
            /\ got.response = <<>>
            /\ \E gone \in SUBSET (DOMAIN r.cache_before.page) :
                   /\ Without(cache, r.cache_before, gone)
                   /\ Cardinality(gone) = IF r.was_cached THEN 1 ELSE 0
                   /\ \A k \in gone : k.path = r.path

\* Witness of C7: a redirect answer to a POST on a path a GET hit.
C7_Witness ==
    \E c \in Clients :
        /\ Mutating(req[c]) /\ req[c].pc = "done" /\ req[c].was_cached
        /\ req[c].sent[1].status = 307

\* C8: a POST, PUT, PATCH or DELETE answered with a status outside [200, 400)
\* leaves the store as it was, and a GET that hit before still hits.
C8_FailureKeepsStore ==
    \A c \in Clients :
        LET r == req[c]
        IN (Mutating(r) /\ ~InRange(r.sent[1].status)) =>
            /\ cache = r.cache_before
            /\ r.was_cached => WouldHit(r.path, r.headers, cache)

\* Witness of C8: the answer 404 to a POST on a path a GET hit.
C8_Witness ==
    \E c \in Clients :
        /\ Mutating(req[c]) /\ req[c].pc = "done" /\ req[c].was_cached
        /\ req[c].sent[1].status = 404
        /\ WouldHit(req[c].path, req[c].headers, cache)

\* C9: the matcher returns the first rule in declaration order whose match
\* accepts the path (and, for a response, whose status filter, if declared,
\* contains the status), and none when there is no such rule.
Accepts(i) == request_matches_rule(rules[i], call.path)
StatusOk(i) ==
    rules[i].status = None \/ call.status \in rules[i].status[1].vals
IsFirst(i, Ok(_)) ==
    IF i = 0
    THEN \A j \in 1..Len(rules) : ~Ok(j)
    ELSE i \in 1..Len(rules) /\ Ok(i) /\ \A j \in 1..(i - 1) : ~Ok(j)

C9_FirstMatchingRule ==
    LET Both(i) == Accepts(i) /\ StatusOk(i)
    IN call.done =>
        /\ IsFirst(call.request_rule, Accepts)
        /\ IsFirst(call.response_rule, Both)

\* Witness of C9: the first rule accepts the path but not the status, a later
\* rule accepts both.
C9_Witness ==
    /\ call.done /\ call.request_rule = 1 /\ call.response_rule = 2
    /\ Len(rules) = MaxRules

\* A complete response this request's send_with_caching has dealt with.
Decided(r) == r.send = "send_with_caching" /\ r.pc = "done" /\ Complete(r)

NotStored(r) ==
    /\ ~r.is_response_cachable
    /\ XCache(r.sent[1]) = <<>>
    /\ \A k \in DOMAIN origin : origin[k].n /= r.n

ZeroTtlMatch(r, i) ==
    /\ rules[i].ttl = Some(0)
    /\ response_matches_rule(rules[i], r.path, r.emitted[1].status)

\* C10 as claimed: a rule with ttl 0 that matches the path and status of a
\* response makes it not cachable, also when an earlier rule matches them.
C10_AnyZeroTtlRule ==
    \A c \in Clients :
        LET r == req[c]
        IN (Decided(r) /\ \E i \in 1..Len(rules) : ZeroTtlMatch(r, i))
            => NotStored(r)

\* C10 as amended: a rule with ttl 0 that is the first rule to match the path
\* and status of a response makes it not cachable, also when a later rule
\* matches them and would allow caching.
C10_FirstZeroTtlRule ==
    \A c \in Clients :
        LET r == req[c]
        IN ( /\ Decided(r)
             /\ \E i \in 1..Len(rules) :
                    /\ ZeroTtlMatch(r, i)
                    /\ \A j \in 1..(i - 1) :
                           ~response_matches_rule(rules[j], r.path,
                                                  r.emitted[1].status) )
            => NotStored(r)

\* Witness of C10: the response is rejected by a rule with ttl 0 that comes
\* before a rule that matches it and sets no ttl.
C10_Witness ==
    \E c \in Clients : \E i, j \in 1..Len(rules) :
        LET r == req[c]
        IN /\ Decided(r) /\ NotStored(r)
           /\ r.emitted[1].status = 200
           /\ i < j /\ ZeroTtlMatch(r, i)
           /\ \A l \in 1..(i - 1) :
                  ~response_matches_rule(rules[l], r.path, 200)
           /\ response_matches_rule(rules[j], r.path, 200)
           /\ rules[j].ttl = None /\ rules[j].status = None

\* The rules that deny one path and cache every other by the default rule:
\* [Rule(P, ttl=0), Rule()].
DenyPath == <<Rule(One(StrItem(PathA)), None, Some(0)), DefaultRule>>

NoXCache(r) == \A i \in 1..Len(r.sent) : XCache(r.sent[i]) = <<>>
WrittenBy(r) == {k \in DOMAIN cache.page : origin[k].n = r.n}
Again(r, o) == o.n < r.n /\ o.path = r.path /\ o.headers = r.headers

\* C11: with the rules [Rule(P, ttl=0), Rule()] nothing is ever stored for P,
\* every GET to P runs the handler and is answered without X-Cache; a GET to
\* another path is looked up, a 200 answer in one chunk to one that misses is
\* marked miss and stored with the default ttl of the store, and the same
\* request again is answered X-Cache: hit.
C11_DenyPath ==
    rules = DenyPath =>
        /\ \A k \in DOMAIN cache.page : k.path /= PathA
        /\ \A c \in Clients :
            LET r == req[c]
            IN (r.pc /= "idle" /\ r.method = "GET") =>
                IF r.path = PathA
                THEN r.app_called /\ NoXCache(r)
                ELSE /\ r.lookup \in {"miss", "hit"}
                     /\ ( /\ r.pc = "done" /\ r.lookup = "miss" /\ Complete(r)
                          /\ r.emitted[1].status = 200 )
                        => /\ XCache(r.sent[1]) = <<"miss">>
                           /\ \E k \in WrittenBy(r) :
                                  cache.page[k].ttl = CACHE_TTL
                     /\ \A k \in DOMAIN origin :
                            Again(r, origin[k])
                            => r.lookup = "hit" /\ XCache(r.sent[1]) = <<"hit">>

\* Witness of C11: the third request, a GET to P answered 200 in one chunk, is
\* not marked, while the answer to a GET to another path is in the store.
C11_Witness ==
    \E c \in Clients : \E k \in DOMAIN origin :
        LET r == req[c]
        IN /\ rules = DenyPath /\ r.n = 3 /\ r.pc = "done"
           /\ r.method = "GET" /\ r.path = PathA
           /\ Complete(r) /\ r.emitted[1].status = 200 /\ NoXCache(r)
           /\ k.path = PathAB /\ cache.page[k].ttl = CACHE_TTL

\* The rule that decides on the response declares no status filter.
DefaultStatusRule(r) ==
    LET i == get_rule_matching_response(rules, r.path, r.emitted[1].status)
    IN i /= 0 /\ rules[i].status = None

Unmarked(r) ==
    /\ NotStored(r)
    /\ ~HHas(r.sent[1].headers, "cache-control")
    /\ ~HHas(r.sent[1].headers, "expires")

Admits(i, path, status) ==
    /\ request_matches_rule(rules[i], path)
    /\ rules[i].status = None \/ status \in rules[i].status[1].vals

\* C14: a complete response that no rule takes, by its path and its declared
\* statuses, is not stored; every stored response and every answer that
\* carries X-Cache has a status that a rule matching the path takes.
C14_StatusFilter ==
    /\ \A c \in Clients :
        LET r == req[c]
        IN /\ ( /\ Decided(r)
                /\ \A i \in 1..Len(rules) :
                       ~Admits(i, r.path, r.emitted[1].status) )
              => NotStored(r)
           /\ (r.sent /= <<>> /\ XCache(r.sent[1]) /= <<>>)
              => \E i \in 1..Len(rules) : Admits(i, r.path, r.sent[1].status)
    /\ \A k \in DOMAIN cache.page :
           \E i \in 1..Len(rules) : Admits(i, k.path, Stored(k).status_code)

\* Witness of C14: with [Rule(status=200, ttl=60)] the second 404 answer to a
\* path the rule matches is not stored.
C14_Witness ==
    \E c \in Clients :
        LET r == req[c]
        IN /\ rules = <<Rule(One(ReItem(PathAB)), Some(StatusInt(200)), Some(60))>>
           /\ Decided(r) /\ r.n = 2 /\ r.path = PathAB
           /\ r.emitted[1].status = 404 /\ NotStored(r)

\* C15: the start a client receives carries X-Cache: hit exactly when the
\* response was replayed from the store, X-Cache: miss exactly when the
\* response was written to the store by this request, and no X-Cache
\* otherwise: never for a method other than GET and HEAD, nor for a streamed
\* response.
C15_XCacheMarking ==
    \A c \in Clients :
        LET r == req[c]
        IN r.sent /= <<>> =>
            /\ XCache(r.sent[1]) \in {<<>>, <<"hit">>, <<"miss">>}
            /\ XCache(r.sent[1]) = <<"hit">> <=> r.lookup = "hit"
            /\ XCache(r.sent[1]) = <<"miss">> <=> WrittenBy(r) /= {}
            /\ (r.method \notin CACHABLE_METHODS \/ Streaming(r)) => NoXCache(r)
            /\ \A i \in 2..Len(r.sent) : XCache(r.sent[i]) = <<>>

\* Witness of C15: a request is answered hit with the response another was
\* answered miss with.
C15_Witness ==
    \E c \in Clients : \E k \in DOMAIN origin :
        LET r == req[c]
        IN /\ r.lookup = "hit" /\ XCache(r.sent[1]) = <<"hit">>
           /\ Again(r, origin[k])
           /\ XCache(origin[k].answer[1]) = <<"miss">>
           /\ WrittenBy(r) = {}

\* C16: a CacheMiddleware entered with the scope of a request that a first
\* CacheMiddleware has marked raises DuplicateCaching, which reaches the
\* caller: the one lookup made is the first middleware's, the second's store
\* is untouched, no application has sent anything, the client has received
\* nothing.  Nothing else raises.
C16_DuplicateCaching ==
    \A c \in Clients :
        LET r == req[c]
        IN /\ r.nested =>
                 /\ r.pc = "raised" /\ r.raised = "DuplicateCaching"
                 /\ r.lookups = 1
                 /\ r.emitted = <<>> /\ r.sent = <<>>
                 /\ special_cache = EmptyCache
           /\ r.pc = "raised" => r.nested

\* Witness of C16: the first request reaches the second middleware.
C16_Witness ==
    \E c \in Clients :
        /\ req[c].n = 1 /\ req[c].nested /\ SCOPE_NAME \in req[c].scope
        /\ req[c].raised = "DuplicateCaching"

OwnHeaders(message) == HDel(HDel(message.headers, "vary"), "x-cache")

\* C19: with two clients whose requests interleave, a client whose lookup
\* missed receives the status, the headers and the chunks of its own handler,
\* in order; every entry of the store is the complete one-chunk response of
\* one request, the last that wrote it: its status, its body and the headers
\* that request was answered with.
C19_ConcurrentMisses ==
    /\ \A c \in Clients :
           LET r == req[c]
           IN (r.lookup = "miss" /\ r.pc = "done") =>
                /\ Len(r.sent) = Len(r.emitted)
                /\ r.sent[1].status = r.emitted[1].status
                /\ \A i \in 1..Len(OwnHeaders(r.emitted[1])) :
                       HGet(r.sent[1].headers, OwnHeaders(r.emitted[1])[i][1])
                           = OwnHeaders(r.emitted[1])[i][2]
                /\ Tail(r.sent) = Tail(r.emitted)
    /\ \A k \in DOMAIN cache.page :
           LET o == origin[k]
               e == Stored(k)
           IN /\ Complete(o)
              /\ e.status_code = o.emitted[1].status
              /\ e.body = o.emitted[2].body
              /\ e.raw_headers = HDel(o.answer[1].headers, "x-cache")
              /\ o.answer[2] = o.emitted[2]

\* Witness of C19: two requests for one key both missed and both stored their
\* answers, of different statuses; the entry is the answer to the first.
C19_Witness ==
    \E c, d \in Clients : \E k \in DOMAIN origin :
        /\ req[c].n = 1 /\ req[d].n = 2
        /\ req[c].pc = "done" /\ req[d].pc = "done"
        /\ req[c].lookup = "miss" /\ req[d].lookup = "miss"
        /\ req[c].headers = req[d].headers /\ req[c].path = req[d].path
        /\ XCache(req[c].sent[1]) = <<"miss">>
        /\ XCache(req[d].sent[1]) = <<"miss">>
        /\ req[c].emitted[1].status /= req[d].emitted[1].status
        /\ DOMAIN cache.page = {k} /\ origin[k].n = 1

\* C20: every entry is stored with the ttl of the first rule that takes the
\* path and the status of its response, or with the default ttl of the store
\* when that rule sets none, and the max-age the storing request was answered
\* with is that ttl.
C20_EffectiveTtl ==
    \A k \in DOMAIN cache.page :
        LET o == origin[k]
            Takes(i) == Admits(i, k.path, Stored(k).status_code)
        IN \E i \in 1..Len(rules) :
               LET ttl == IF rules[i].ttl = None
                          THEN CACHE_TTL
                          ELSE rules[i].ttl[1]
               IN /\ IsFirst(i, Takes)
                  /\ cache.page[k].ttl = ttl
                  /\ XCache(o.answer[1]) = <<"miss">>
                  /\ HGet(o.answer[1].headers, "cache-control") = <<MaxAge(ttl)>>
                  /\ HGet(Stored(k).raw_headers, "cache-control") = <<MaxAge(ttl)>>

\* Witness of C20: one entry stored with the ttl 30 of the first rule and one
\* with the ttl 60 of the second.
C20_Witness ==
    \E k1, k2 \in DOMAIN cache.page :
        /\ cache.page[k1].ttl = 30 /\ cache.page[k2].ttl = 60
        /\ HGet(origin[k1].answer[1].headers, "cache-control") = <<MaxAge(30)>>
        /\ HGet(origin[k2].answer[1].headers, "cache-control") = <<MaxAge(60)>>

\* The headers of a message that patch_cache_control leaves alone.
OtherHeaders(message) == HDel(HDel(message.headers, "cache-control"), "expires")

Accepted(rule, path) ==
    \E i \in 1..Len(rule.match.items) :
        LET item == rule.match.items[i]
        IN \/ item.kind = "str" /\ item.text = Star
           \/ item.kind = "str" /\ item.text = path
           \/ item.kind = "re" /\ IsPrefix2(item.text, path)

\* C22: under rules without status filter and ttl, a GET is looked up in the
\* store exactly when a rule accepts its path: by the literal "*", by a string
\* equal to the whole path, by a pattern matching the path from its start, or
\* by a collection with such a member.  A request to a path no rule accepts
\* is not looked up, its response goes to the client as the handler sent it,
\* without X-Cache, and the store stays as it was; no entry of the store is
\* for a path no rule accepts.
C22_RuleAcceptsPath ==
    /\ \A c \in Clients :
           LET r == req[c]
               accepted == \E i \in 1..Len(rules) : Accepted(rules[i], r.path)
           IN r.pc /= "idle" =>
               /\ accepted <=> r.lookup \in {"miss", "hit"}
               /\ ~accepted =>
                     /\ r.lookup = "not_cachable"
                     /\ r.send = "send"
                     /\ r.sent = r.emitted
                     /\ NoXCache(r)
                     /\ cache = r.cache_before
    /\ \A k \in DOMAIN cache.page :
           \E i \in 1..Len(rules) : Accepted(rules[i], k.path)

\* The one rule is the pattern /a: the response for /a/b was stored, the
\* response for / has reached the client as the handler sent it.
C22_Witness ==
    LET r == req["c1"]
    IN /\ rules = <<Rule(One(ReItem(PathA)), None, None)>>
       /\ r.pc = "done"
       /\ r.path = Root
       /\ Len(r.sent) = 2
       /\ NoXCache(r)
       /\ \E k \in DOMAIN cache.page : k.path = PathAB

SetsCookie(r) == HHas(r.emitted[1].headers, "set-cookie")

\* C23: a complete 200 response with a Set-Cookie header, on a path with a
\* caching rule, is not stored and goes out without X-Cache, the store staying
\* as it was, when the GET that missed carried no cookie; it is stored and
\* goes out with X-Cache: miss when the GET carried a cookie.
C23_CookielessNotStored ==
    \A c \in Clients :
        LET r == req[c]
        IN (Decided(r) /\ r.method = "GET" /\ r.emitted[1].status = 200
              /\ SetsCookie(r) /\ CachingRule(r.path)) =>
            IF r.headers["cookie"] = ""
            THEN /\ NotStored(r)
                 /\ NoXCache(r)
                 /\ r.sent = r.emitted
                 /\ cache = r.cache_before
            ELSE /\ XCache(r.sent[1]) = <<"miss">>
                 /\ \E k \in WrittenBy(r) :
                        /\ Stored(k).body = r.emitted[2].body
                        /\ HHas(Stored(k).raw_headers, "set-cookie")

\* The second GET carries the cookie and the store was empty when it came: its
\* response, which sets the cookie, is stored and goes out X-Cache: miss.
C23_Witness ==
    LET r == req["c1"]
    IN /\ rules = <<DefaultRule>>
       /\ r.n = 2 /\ Decided(r) /\ SetsCookie(r)
       /\ r.headers["cookie"] = "session_id=1234"
       /\ r.cache_before.page = <<>>
       /\ XCache(r.sent[1]) = <<"miss">>
       /\ WrittenBy(r) /= {}

\* C24: while a request that missed has had no body chunk from its handler,
\* the client has received nothing and the store is as the request found it,
\* whether the handler has sent the start or not and whether it is still
\* running, has returned or has failed.
C24_StartBuffered ==
    \A c \in Clients :
        LET r == req[c]
        IN (r.send = "send_with_caching" /\ BodiesIn(r.emitted) = <<>>) =>
            /\ r.sent = <<>>
            /\ cache = r.cache_before
            /\ WrittenBy(r) = {}

\* A handler failed after the start of its response: the client has nothing.
C24_Witness ==
    LET r == req["c1"]
    IN /\ r.send = "send_with_caching"
       /\ r.pc = "raised" /\ r.raised = "HandlerError"
       /\ Len(r.emitted) = 1
       /\ r.initial_message = r.emitted
       /\ r.sent = <<>>

\* The messages of a handler up to the last chunk of the body.
UpToFinal(emitted) ==
    LET finals == {i \in 1..Len(emitted) :
                      emitted[i].type = "http.response.body"
                          /\ ~emitted[i].more_body}
    IN IF finals = {} THEN emitted
       ELSE SubSeq(emitted, 1, CHOOSE i \in finals : \A j \in finals : i <= j)

StartsIn(msgs) ==
    LET IsStart(m) == m.type = "http.response.start" IN SelectSeq(msgs, IsStart)

\* C25: what a handler sends after the last chunk of the body of a response
\* that went through send_with_caching is not accepted: the client receives
\* the start once, and the entry the request wrote holds the response as it
\* was when the last chunk was processed.
C25_DoneTerminal ==
    \A c \in Clients :
        LET r == req[c]
        IN r.send = "send_with_caching" =>
            /\ Len(StartsIn(r.sent)) <= 1
            /\ \A k \in WrittenBy(r) :
                   origin[k].emitted = UpToFinal(r.emitted)

\* C26: when store_in_cache has rejected the complete response of a request
\* that missed, the client has received the start and the body as the handler
\* sent them, status and headers untouched, and the store holds what it held
\* when the request arrived.
C26_RejectedUntouched ==
    \A c \in Clients :
        LET r == req[c]
        IN (Decided(r) /\ ~r.is_response_cachable) =>
            /\ r.sent = r.emitted
            /\ cache.page = r.cache_before.page
            /\ cache.vary = r.cache_before.vary

\* The rule caches 200 only and the handler answered 404 while the store was
\* working: the response was rejected and has reached the client.
C26_Witness ==
    LET r == req["c1"]
    IN /\ rules = <<Rule(One(ReItem(PathAB)), Some(StatusInt(200)), Some(60))>>
       /\ Decided(r) /\ ~r.is_response_cachable
       /\ r.outage = {}
       /\ r.emitted[1].status = 404
       /\ r.sent = r.emitted

\* The header values a request can carry.
Carried == {RequestHeaders(e, k) : e \in Keys.encodings, k \in Keys.cookies}

\* C27 as claimed: once the start of the response to a POST, PUT, PATCH or
\* DELETE with a status in [200, 400) has been sent on, a GET to the path
\* misses whatever header values it carries.
C27_WholeResource ==
    \A c \in Clients :
        LET r == req[c]
        IN (Mutating(r) /\ InRange(r.sent[1].status)) =>
            \A h \in Carried :
                WouldHit(r.path, h, r.cache_before) => ~WouldHit(r.path, h, cache)

\* C27, amended: once the start of the response to a POST, PUT, PATCH or
\* DELETE with a status in [200, 400) has been sent on, a GET to the path that
\* hit before misses exactly when it carries, for every header the responses
\* of the path vary on, the value the mutating request carried; with another
\* value for one of them it still hits.
C27_SameValuesOnly ==
    \A c \in Clients :
        LET r == req[c]
        IN (Mutating(r) /\ InRange(r.sent[1].status)) =>
            \A h \in Carried :
                WouldHit(r.path, h, r.cache_before) =>
                    ( WouldHit(r.path, h, cache)
                        <=> \E name \in Range(r.cache_before.vary[r.path]) :
                                h[name] /= r.headers[name] )

\* Responses to GETs with gzip and with identity were stored; a POST with gzip
\* was answered 200: a GET with gzip misses, a GET with identity hits.
C27_Witness ==
    LET r == req["c1"]
        gzip == RequestHeaders("gzip", "")
        identity == RequestHeaders("identity", "")
    IN /\ Mutating(r) /\ InRange(r.sent[1].status)
       /\ r.headers = gzip
       /\ WouldHit(r.path, gzip, r.cache_before)
       /\ WouldHit(r.path, identity, r.cache_before)
       /\ ~WouldHit(r.path, gzip, cache)
       /\ WouldHit(r.path, identity, cache)

\* The key of the entry a request with an invalidating method deletes.
OwnKey(r) ==
    generate_cache_key(r.path, "GET", r.headers, r.cache_before.vary[r.path])

\* C28: while the response to a POST, PUT, PATCH or DELETE is under way, the
\* client has every message the handler has sent, as it was sent, but for the
\* one the send channel is about to send on; the request has written no entry
\* to the store; and once the client has the start of a response with a status
\* in [200, 400), the entry a GET with the request's header values hit when
\* the request arrived is in the store no more, whatever the other requests
\* in flight have done since.
C28_DeleteBeforeForward ==
    \A c \in Clients :
        LET r == req[c]
        IN r.send = "send_then_invalidate" =>
            /\ r.sent = IF r.pending = <<"send">>
                        THEN SubSeq(r.emitted, 1, Len(r.emitted) - 1)
                        ELSE r.emitted
            /\ WrittenBy(r) = {}
            /\ (r.sent /= <<>> /\ InRange(r.sent[1].status) /\ r.was_cached) =>
                   \/ OwnKey(r) \notin DOMAIN cache.page
                   \/ cache.page[OwnKey(r)] /= r.cache_before.page[OwnKey(r)]

\* A POST found an entry for its path and was answered 200; a GET that came
\* after it missed, and has stored its own response under the key since.
C28_Witness ==
    \E c, d \in Clients :
        LET r == req[c]
            g == req[d]
        IN /\ r.send = "send_then_invalidate" /\ r.pc = "done"
           /\ r.was_cached /\ InRange(r.sent[1].status)
           /\ r.sent = r.emitted /\ Len(r.sent) = 2
           /\ g.method = "GET" /\ g.n > r.n /\ g.lookup = "miss"
           /\ OwnKey(r) \in WrittenBy(g)

\* C29: a request the lookup rejected and whose method does not invalidate
\* has its handler called with the send of the server: at every moment the
\* client has received the messages the handler has sent, as they were sent,
\* no start is held back, and the store is as the request found it.
C29_PlainSend ==
    \A c \in Clients :
        LET r == req[c]
        IN (r.lookup = "not_cachable" /\ r.method \notin INVALIDATING_METHODS) =>
            /\ r.app_called
            /\ r.send = "send"
            /\ r.initial_message = <<>>
            /\ r.sent = r.emitted
            /\ cache = r.cache_before

\* A GET to /a, which a rule with ttl 0 denies, was answered in two chunks
\* while the store held the response of an earlier request.
C29_Witness ==
    LET r == req["c1"]
    IN /\ rules = <<Rule(One(StrItem(PathA)), None, Some(0)), DefaultRule>>
       /\ r.method = "GET" /\ r.path = PathA
       /\ r.lookup = "not_cachable" /\ r.pc = "done"
       /\ Len(r.sent) = 3 /\ r.sent = r.emitted
       /\ DOMAIN cache.page /= {}
====
